---- MODULE Spec2Model ----
(***************************************************************************)
(* Model of passl/modeling/architectures/LVViTWrapper.py:                  *)
(*   - LVViTWrapper.forward and its four mode handlers (SpecWrap),         *)
(*   - the accuracy metric (SpecAcc),                                      *)
(*   - LVViTLoss: construction (SpecCtor) and forward (SpecLoss).          *)
(* Tensors are sequences of integers; real-valued quantities are kept as   *)
(* exact fractions over a named denominator.                               *)
(***************************************************************************)
EXTENDS Integers, Sequences, FiniteSets, TLC

VARIABLES
    \* ---- LVViTWrapper.forward ----
    pc,         \* position inside forward / the mode handler
    mode,       \* the mode keyword of the current call
    inputs,     \* *inputs of the current call
    kwargs,     \* **kwargs of the current call
    img,        \* local img of train_iter / test_iter
    label,      \* local label of train_iter / test_iter
    outs,       \* local outs of the handlers
    pending,    \* exception in flight inside a with block ("" when none)
    grad,       \* the framework's gradient-tracking flag
    orig,       \* the flag saved by the active no_grad scope
    gradBefore, \* the flag when the current call was entered
    trace,      \* collaborator invocations of the current call, in order
    result,     \* how the current call ended
    \* ---- accuracy ----
    acc,        \* inputs and result of one accuracy() evaluation
    \* ---- LVViTLoss ----
    loss,       \* the LVViTLoss object (or the failed construction)
    fwd         \* inputs, intermediate values and result of LVViTLoss.forward

vars == <<pc, mode, inputs, kwargs, img, label, outs, pending, grad, orig,
          gradBefore, trace, result, acc, loss, fwd>>

(***************************************************************************)
(* Small helpers                                                           *)
(***************************************************************************)
RECURSIVE SumSeq(_)
SumSeq(s) == IF s = << >> THEN 0 ELSE Head(s) + SumSeq(Tail(s))

RECURSIVE Concat(_)
Concat(ss) == IF ss = << >> THEN << >> ELSE Head(ss) \o Concat(Tail(ss))

RECURSIVE Join(_)
Join(ss) == IF ss = << >> THEN ""
            ELSE IF Len(ss) = 1 THEN Head(ss)
            ELSE Head(ss) \o "," \o Join(Tail(ss))

Max2(a, b) == IF a >= b THEN a ELSE b

RECURSIVE MaxSeq(_)
MaxSeq(s) == IF Len(s) = 1 THEN Head(s) ELSE Max2(Head(s), MaxSeq(Tail(s)))

(***************************************************************************)
(* LVViTWrapper                                                            *)
(***************************************************************************)
MaxInputs == 3

Tensors == {"a", "b"}
Modes == {"train", "test", "infer", "extract", "eval", "Train", ""}
ValidModes == {"train", "test", "infer", "extract"}

InputTuples == UNION {[1..n -> Tensors] : n \in 0..MaxInputs}

\* **kwargs: the option mixup_fn is absent, None, or a mixing function.
KwargSets == {f \in UNION {[D -> {"None", "mixup"}] : D \in SUBSET {"mixup_fn"}} : TRUE}

\* The collaborators, as terms over their arguments.
Backbone(args) == "backbone(" \o Join(args) \o ")"
ForwardFeatures(x) == "features(" \o x \o ")"
MixImg(i, l) == "mix_img(" \o i \o "," \o l \o ")"
MixLabel(i, l) == "mix_label(" \o i \o "," \o l \o ")"
LossModule(o, l) == "loss(" \o o \o "," \o l \o ")"

Invocation(fn, args) == [fn |-> fn, args |-> args, grad |-> grad]

NoResult == [kind |-> "none", type |-> "", value |-> ""]
Returned(v) == [kind |-> "return", type |-> "", value |-> v]
Raised(t, m) == [kind |-> "raise", type |-> t, value |-> m]

\* raise Exception("No such mode: {}".format(mode))
NoSuchModeUnformatted(m) == Raised("Exception", "No such mode: {}")
NoSuchMode(m) == Raised("Exception", "No such mode: " \o m)

\* `with paddle.no_grad():` entry saves the flag and clears it; leaving
\* the block, normally or by an exception, puts the saved flag back.
NoGradExitSkippedOnError(saved, exc) == IF exc = "" THEN saved ELSE FALSE
NoGradExit(saved, exc) == saved

WrapInit ==
    /\ pc = "idle"
    /\ mode = "train"
    /\ inputs = << >>
    /\ kwargs = << >>
    /\ img = "" /\ label = "" /\ outs = ""
    /\ pending = ""
    /\ grad \in BOOLEAN
    /\ orig = TRUE
    /\ gradBefore = grad
    /\ trace = << >>
    /\ result = NoResult

\* The wrapper leaves the metric and the loss object alone.
WrapFrame == UNCHANGED <<acc, loss, fwd>>

\* forward(*inputs, mode=..., **kwargs): the if/elif chain.
FirstStep(m) ==
    IF m = "train" THEN "train_unpack"
    ELSE IF m = "test" THEN "test_enter"
    ELSE IF m = "infer" THEN "infer_enter"
    ELSE IF m = "extract" THEN "extract"
    ELSE "done"

Forward(m, ins, kw) ==
    /\ WrapFrame
    /\ pc \in {"idle", "done"}
    /\ mode' = m /\ inputs' = ins /\ kwargs' = kw
    /\ img' = "" /\ label' = "" /\ outs' = ""
    /\ pending' = ""
    /\ gradBefore' = grad
    /\ trace' = << >>
    /\ pc' = FirstStep(m)
    /\ result' = IF m \in ValidModes THEN NoResult ELSE NoSuchMode(m)
    /\ UNCHANGED <<grad, orig>>

\* train_iter: img, label = inputs
TrainUnpack ==
    /\ WrapFrame
    /\ pc = "train_unpack"
    /\ IF Len(inputs) = 2
         THEN /\ img' = inputs[1] /\ label' = inputs[2]
              /\ pc' = "train_kwargs"
              /\ UNCHANGED result
         ELSE /\ result' = Raised("ValueError", "unpack")
              /\ pc' = "done"
              /\ UNCHANGED <<img, label>>
    /\ UNCHANGED <<mode, inputs, kwargs, outs, pending, grad, orig, gradBefore, trace>>

\* train_iter: mixup_fn = kwargs['mixup_fn']
HasMixup(kw) == "mixup_fn" \in DOMAIN kw

TrainKwargs ==
    /\ WrapFrame
    /\ pc = "train_kwargs"
    /\ IF HasMixup(kwargs)
         THEN /\ pc' = IF kwargs["mixup_fn"] # "None" THEN "train_mixup" ELSE "train_backbone"
              /\ UNCHANGED result
         ELSE /\ result' = Raised("KeyError", "mixup_fn")
              /\ pc' = "done"
    /\ UNCHANGED <<mode, inputs, kwargs, img, label, outs, pending, grad, orig,
                   gradBefore, trace>>

\* train_iter: img, label = mixup_fn(img, label)
TrainMixup ==
    /\ WrapFrame
    /\ pc = "train_mixup"
    /\ trace' = Append(trace, Invocation("mixup_fn", <<img, label>>))
    /\ \/ /\ img' = MixImg(img, label) /\ label' = MixLabel(img, label)
          /\ pc' = "train_backbone"
          /\ UNCHANGED result
       \/ /\ result' = Raised("CollaboratorError", "mixup_fn")
          /\ pc' = "done"
          /\ UNCHANGED <<img, label>>
    /\ UNCHANGED <<mode, inputs, kwargs, outs, pending, grad, orig, gradBefore>>

\* train_iter: outs = self.backbone(img)
TrainBackbone ==
    /\ WrapFrame
    /\ pc = "train_backbone"
    /\ trace' = Append(trace, Invocation("backbone", <<img>>))
    /\ \/ /\ outs' = Backbone(<<img>>)
          /\ pc' = "train_loss"
          /\ UNCHANGED result
       \/ /\ result' = Raised("CollaboratorError", "backbone")
          /\ pc' = "done"
          /\ UNCHANGED outs
    /\ UNCHANGED <<mode, inputs, kwargs, img, label, pending, grad, orig, gradBefore>>

\* train_iter: outputs = self.loss(outs, label); return outputs
TrainLoss ==
    /\ WrapFrame
    /\ pc = "train_loss"
    /\ trace' = Append(trace, Invocation("loss", <<outs, label>>))
    /\ \/ result' = Returned(LossModule(outs, label))
       \/ result' = Raised("CollaboratorError", "loss")
    /\ pc' = "done"
    /\ UNCHANGED <<mode, inputs, kwargs, img, label, outs, pending, grad, orig, gradBefore>>

\* test_iter / infer_iter: with paddle.no_grad():
NoGradEnter ==
    /\ WrapFrame
    /\ pc \in {"test_enter", "infer_enter"}
    /\ orig' = grad
    /\ grad' = FALSE
    /\ pc' = IF pc = "test_enter" THEN "test_unpack" ELSE "infer_backbone"
    /\ UNCHANGED <<mode, inputs, kwargs, img, label, outs, pending, gradBefore, trace, result>>

\* test_iter: img, label = inputs  (inside the with block)
TestUnpack ==
    /\ WrapFrame
    /\ pc = "test_unpack"
    /\ IF Len(inputs) = 2
         THEN /\ img' = inputs[1] /\ label' = inputs[2]
              /\ pc' = "test_backbone"
              /\ UNCHANGED pending
         ELSE /\ pending' = "ValueError"
              /\ pc' = "exit"
              /\ UNCHANGED <<img, label>>
    /\ UNCHANGED <<mode, inputs, kwargs, outs, grad, orig, gradBefore, trace, result>>

\* test_iter: outs = self.backbone(img)
TestArgs(ins, i, l) == <<i>>
\* infer_iter: outs = self.backbone(*inputs)
InferArgs(ins, i, l) == ins

BackboneArgs == IF pc = "test_backbone" THEN TestArgs(inputs, img, label)
                ELSE InferArgs(inputs, img, label)

NoGradBackbone ==
    /\ WrapFrame
    /\ pc \in {"test_backbone", "infer_backbone"}
    /\ trace' = Append(trace, Invocation("backbone", BackboneArgs))
    /\ \/ /\ outs' = Backbone(BackboneArgs)
          /\ UNCHANGED pending
       \/ /\ pending' = "CollaboratorError"
          /\ UNCHANGED outs
    /\ pc' = "exit"
    /\ UNCHANGED <<mode, inputs, kwargs, img, label, grad, orig, gradBefore, result>>

\* leaving the with block, then `return outs` or the exception going on up
NoGradLeave ==
    /\ WrapFrame
    /\ pc = "exit"
    /\ grad' = NoGradExit(orig, pending)
    /\ result' = IF pending = "" THEN Returned(outs)
                 ELSE Raised(pending, IF pending = "ValueError" THEN "unpack" ELSE "backbone")
    /\ pending' = ""
    /\ pc' = "done"
    /\ UNCHANGED <<mode, inputs, kwargs, img, label, outs, orig, gradBefore, trace>>

\* forward: return self.backbone.forward_features(inputs[0])
ExtractArg(ins) == ins[1]

Extract ==
    /\ WrapFrame
    /\ pc = "extract"
    /\ IF Len(inputs) = 0
         THEN /\ result' = Raised("IndexError", "inputs[0]")
              /\ UNCHANGED trace
         ELSE /\ trace' = Append(trace, Invocation("forward_features", <<ExtractArg(inputs)>>))
              /\ \/ result' = Returned(ForwardFeatures(ExtractArg(inputs)))
                 \/ result' = Raised("CollaboratorError", "forward_features")
    /\ pc' = "done"
    /\ UNCHANGED <<mode, inputs, kwargs, img, label, outs, pending, grad, orig, gradBefore>>

WrapNext ==
    \/ \E m \in Modes, ins \in InputTuples, kw \in KwargSets : Forward(m, ins, kw)
    \/ TrainUnpack
    \/ TrainKwargs
    \/ TrainMixup
    \/ TrainBackbone
    \/ TrainLoss
    \/ NoGradEnter
    \/ TestUnpack
    \/ NoGradBackbone
    \/ NoGradLeave
    \/ Extract

AccIdle == acc = [pc |-> "unused"]
LossIdle == loss = [state |-> "unused"] /\ fwd = [pc |-> "unused"]

InitWrap == WrapInit /\ AccIdle /\ LossIdle

SpecWrap == InitWrap /\ [][WrapNext]_vars


(***************************************************************************)
(* Claims about LVViTWrapper.forward (checked under SpecWrap)              *)
(***************************************************************************)
Ended == pc = "done"
Invoked(fn) == {i \in DOMAIN trace : trace[i].fn = fn}
MixupGiven == IF "mixup_fn" \in DOMAIN kwargs THEN kwargs["mixup_fn"] # "None" ELSE FALSE

\* C1 (as stated): a mode other than train/test/infer/extract makes forward
\* fail with an UnsupportedModeError naming the mode, no collaborator invoked.
C1_Original ==
    (Ended /\ mode \notin ValidModes) =>
        /\ result.kind = "raise"
        /\ result.type = "UnsupportedModeError"
        /\ result.value = "No such mode: " \o mode
        /\ trace = << >>

\* C1 (amended): a mode other than train/test/infer/extract makes forward fail
\* at once with a plain Exception whose message is "No such mode: <mode>";
\* no handler step runs, no collaborator is invoked, the gradient flag is as
\* it was.
C1_InvalidModeRaisesException ==
    (pc # "idle" /\ mode \notin ValidModes) =>
        /\ Ended
        /\ result = Raised("Exception", "No such mode: " \o mode)
        /\ trace = << >>
        /\ grad = gradBefore

C1_Witness == Ended /\ mode = "eval" /\ result.kind = "raise" /\ inputs # << >>

\* C2: in mode test or infer the gradient flag is off whenever the backbone
\* runs, and when the call has ended (returned, backbone error, or wrong
\* number of inputs) the flag is what it was before the call.
C2_NoGradScoped ==
    (mode \in {"test", "infer"}) =>
        /\ \A i \in Invoked("backbone") : trace[i].grad = FALSE
        /\ (pc \in {"test_unpack", "test_backbone", "infer_backbone", "exit"}) => ~grad
        /\ Ended => (grad = gradBefore /\ result.kind # "none")

C2_Witness ==
    /\ Ended /\ mode = "test" /\ gradBefore
    /\ result.kind = "raise" /\ result.type = "CollaboratorError"
    /\ Invoked("backbone") # {}

\* C3 (as stated): in mode train the mixing function is applied exactly when
\* mixup_fn is present and not None, before the backbone, which then gets the
\* mixed image (the loss the mixed label); with mixup_fn absent or None the
\* call does not fail for that and backbone and loss get the caller's image
\* and label.
C3_Claim ==
    (Ended /\ mode = "train" /\ Len(inputs) = 2) =>
        /\ MixupGiven <=> Invoked("mixup_fn") # {}
        /\ \A i \in Invoked("mixup_fn"), j \in Invoked("backbone") : i < j
        /\ \A j \in Invoked("backbone") :
              trace[j].args = IF MixupGiven THEN <<MixImg(inputs[1], inputs[2])>>
                              ELSE <<inputs[1]>>
        /\ \A j \in Invoked("loss") :
              trace[j].args[2] = IF MixupGiven THEN MixLabel(inputs[1], inputs[2])
                                 ELSE inputs[2]
        /\ ~MixupGiven => /\ result.type # "KeyError"
                          /\ Invoked("backbone") # {}

\* C4 (as stated): every call whose collaborators do not fail invokes, in
\* test and infer, the backbone exactly once and returns its output (no loss,
\* no mixing, the test label unused); in train, the backbone once, then the
\* loss once, and returns the loss mapping; in extract, only forward_features
\* on the first input.
WellFormedCall ==
    /\ mode \in {"train", "test"} => Len(inputs) = 2
    /\ mode = "extract" => Len(inputs) >= 1
    /\ result.type # "CollaboratorError"

FnNames == [i \in DOMAIN trace |-> trace[i].fn]

C4_Claim ==
    (Ended /\ mode \in ValidModes /\ WellFormedCall) =>
        /\ mode = "test" =>
              /\ trace = <<[fn |-> "backbone", args |-> <<inputs[1]>>, grad |-> FALSE]>>
              /\ result = Returned(Backbone(<<inputs[1]>>))
        /\ mode = "infer" =>
              /\ trace = <<[fn |-> "backbone", args |-> inputs, grad |-> FALSE]>>
              /\ result = Returned(Backbone(inputs))
        /\ mode = "train" =>
              /\ FnNames \in {<<"backbone", "loss">>, <<"mixup_fn", "backbone", "loss">>}
              /\ result = Returned(LossModule(Backbone(trace[Len(trace) - 1].args),
                                              trace[Len(trace)].args[2]))
        /\ mode = "extract" =>
              /\ FnNames = <<"forward_features">>
              /\ trace[1].args = <<inputs[1]>>
              /\ result = Returned(ForwardFeatures(inputs[1]))

\* What remains of C4 once the mixup_fn option is supplied (C3): it holds.
C4_WithMixupOption == ("mixup_fn" \in DOMAIN kwargs \/ mode # "train") => C4_Claim


(***************************************************************************)
(* accuracy(output, target, topk)                                          *)
(***************************************************************************)
MaxBatch == 2
MaxClasses == 3
MaxK == 3

LogitVals == {0, 1, 2}
Strides == {0, 1}

\* Row number `code` of the C-class rows over LogitVals (its base-3 digits).
RECURSIVE Pow(_, _)
Pow(b, e) == IF e = 0 THEN 1 ELSE b * Pow(b, e - 1)
NumRows(C) == Pow(Cardinality(LogitVals), C)
RowOf(code, C) == [c \in 1..C |-> (code \div Pow(Cardinality(LogitVals), c - 1)) % Cardinality(LogitVals)]

\* A batch of B rows: row b is row number start + (b-1)*stride.
BatchOf(start, stride, B, C) == [b \in 1..B |-> RowOf((start + (b - 1) * stride) % NumRows(C), C)]

\* Targets: a class-index vector [B], or a [B,C] tensor (one-hot, or with
\* the maximum repeated on later classes).
IndexTarget(idx) == [dim |-> 1, idx |-> idx, rows |-> << >>]
OneHotTarget(idx, C) ==
    [dim |-> 2, idx |-> << >>,
     rows |-> [b \in DOMAIN idx |-> [c \in 1..C |-> IF c - 1 = idx[b] THEN 1 ELSE 0]]]
TiedTarget(idx, C) ==
    [dim |-> 2, idx |-> << >>,
     rows |-> [b \in DOMAIN idx |-> [c \in 1..C |-> IF c - 1 >= idx[b] THEN 1 ELSE 0]]]
\* The class-index vectors: sample b has class first + (b-1)*step (mod C).
IndexVectors(B, C) ==
    {[b \in 1..B |-> (first + (b - 1) * step) % C] : first \in 0..(C - 1), step \in 0..(C - 1)}
AccTargets(B, C) ==
    UNION {{IndexTarget(idx), OneHotTarget(idx, C), TiedTarget(idx, C)} :
           idx \in IndexVectors(B, C)}

TopkSets == {<<k>> : k \in 1..MaxK} \cup {<<k, 1>> : k \in 2..MaxK} \cup {<<1, 2>>}

\* x.argmax(axis=-1) of one row: the first index holding the maximum.
ArgMax(row) == (CHOOSE c \in DOMAIN row :
                   /\ \A d \in DOMAIN row : row[d] <= row[c]
                   /\ \A d \in DOMAIN row : row[d] = row[c] => c <= d) - 1

\* Class d comes before class c in a row sorted largest first; equal scores
\* are ordered by the kernel, either way round.
Before(row, d, c, tie) ==
    \/ row[d + 1] > row[c + 1]
    \/ row[d + 1] = row[c + 1] /\ (IF tie = "low" THEN d < c ELSE d > c)

\* output.topk(maxk, 1, True, True)[1] of one row: the classes of the maxk
\* largest scores, largest first.
TopKRow(row, maxk, tie) ==
    [j \in 1..maxk |->
        CHOOSE c \in 0..(Len(row) - 1) :
            Cardinality({d \in 0..(Len(row) - 1) : Before(row, d, c, tie)}) = j - 1]

\* pred.t()
Transpose(m, rows, cols) == [j \in 1..cols |-> [b \in 1..rows |-> m[b][j]]]

\* pred == target.reshape([1, -1]).expand_as(pred), cast to float32
Correct(pred, target) ==
    [j \in DOMAIN pred |-> [b \in DOMAIN pred[j] |-> IF pred[j][b] = target[b] THEN 1 ELSE 0]]

\* correct[:k].reshape([-1]).sum(0, keepdim=True)
CorrectKAllRows(correct, k) == SumSeq(Concat(correct))
CorrectK(correct, k) == SumSeq(Concat(SubSeq(correct, 1, k)))

\* A float kept exactly: num / den.
Frac(n, d) == [num |-> n, den |-> d]

\* accuracy(): the list res, or the error of topk when maxk exceeds the
\* number of classes.
Accuracy(output, target, topk, tie) ==
    LET maxk == MaxSeq(topk)
        tgt == IF target.dim > 1 THEN [b \in DOMAIN target.rows |-> ArgMax(target.rows[b])]
               ELSE target.idx
        batch_size == Len(tgt)
        C == Len(output[1])
    IN  IF maxk > C THEN [err |-> "topk", res |-> << >>]
        ELSE LET pred == Transpose([b \in DOMAIN output |-> TopKRow(output[b], maxk, tie)],
                                   Len(output), maxk)
                 correct == Correct(pred, tgt)
             IN  [err |-> "",
                  res |-> [i \in DOMAIN topk |-> Frac(CorrectK(correct, topk[i]) * 100, batch_size)]]

AccInit ==
    \E B \in 1..MaxBatch, C \in 1..MaxClasses :
      \E start \in 0..(NumRows(C) - 1), stride \in Strides,
         t \in AccTargets(B, C), ks \in TopkSets, tie \in {"low", "high"} :
        acc = [pc |-> "ready", output |-> BatchOf(start, stride, B, C), target |-> t,
               topk |-> ks, tie |-> tie, err |-> "", res |-> << >>]

AccuracyCall ==
    /\ acc.pc = "ready"
    /\ LET r == Accuracy(acc.output, acc.target, acc.topk, acc.tie)
       IN  acc' = [acc EXCEPT !.pc = "done", !.err = r.err, !.res = r.res]
    /\ UNCHANGED <<pc, mode, inputs, kwargs, img, label, outs, pending, grad, orig,
                   gradBefore, trace, result, loss, fwd>>

WrapIdle == WrapInit /\ grad

AccNext == AccuracyCall

InitAcc == AccInit /\ WrapIdle /\ LossIdle

SpecAcc == InitAcc /\ [][AccNext]_vars

(***************************************************************************)
(* Claim about accuracy (checked under SpecAcc)                            *)
(***************************************************************************)
AccB == Len(acc.output)
AccC == Len(acc.output[1])

\* The true class of row b: the index given, or the first maximum of the row.
TrueClass(b) ==
    IF acc.target.dim = 1 THEN acc.target.idx[b]
    ELSE CHOOSE c \in 0..(AccC - 1) :
            /\ \A d \in 0..(AccC - 1) : acc.target.rows[b][d + 1] <= acc.target.rows[b][c + 1]
            /\ \A d \in 0..(c - 1) : acc.target.rows[b][d + 1] < acc.target.rows[b][c + 1]

\* Row b is a hit at k: fewer than k classes are ranked before its true class.
Hit(b, k) ==
    Cardinality({d \in 0..(AccC - 1) : Before(acc.output[b], d, TrueClass(b), acc.tie)}) < k

\* Without ties the rank is by score alone.
StrictHit(b, k) ==
    Cardinality({d \in 0..(AccC - 1) : acc.output[b][d + 1] > acc.output[b][TrueClass(b) + 1]}) < k
LooseHit(b, k) ==
    Cardinality({d \in 0..(AccC - 1) \ {TrueClass(b)} :
                    acc.output[b][d + 1] >= acc.output[b][TrueClass(b) + 1]}) < k

AllKInRange == \A i \in DOMAIN acc.topk : acc.topk[i] <= AccC

\* C6: with every k <= C, accuracy returns one value per k, in the order of
\* the k-set; the value for k is 100 * (rows whose true class is among the k
\* highest-scoring classes) / B, so it lies in [0,100]; a target equal to
\* every row's top-1 prediction gives 100 for k = 1.
C6_AccuracyIsTopKHitRate ==
    (acc.pc = "done" /\ AllKInRange) =>
        /\ acc.err = ""
        /\ Len(acc.res) = Len(acc.topk)
        /\ \A i \in DOMAIN acc.topk :
              LET k == acc.topk[i]
                  v == acc.res[i]
              IN  /\ v.den = AccB
                  /\ v.num = 100 * Cardinality({b \in 1..AccB : Hit(b, k)})
                  /\ v.num >= 100 * Cardinality({b \in 1..AccB : LooseHit(b, k)})
                  /\ v.num <= 100 * Cardinality({b \in 1..AccB : StrictHit(b, k)})
                  /\ 0 <= v.num /\ v.num <= 100 * v.den
                  /\ (k = 1 /\ \A b \in 1..AccB : TrueClass(b) = TopKRow(acc.output[b], 1, acc.tie)[1])
                        => v.num = 100 * v.den

C6_Witness ==
    /\ acc.pc = "done" /\ acc.err = ""
    /\ acc.topk = <<2, 1>> /\ AccB = 2 /\ AccC = 3
    /\ acc.target.dim = 2
    /\ acc.res = <<Frac(100, 2), Frac(0, 2)>>


(***************************************************************************)
(* LVViTLoss and _SoftTargetCrossEntropy                                   *)
(***************************************************************************)
MaxB == 2
MaxSide == 2
MaxSeed == 3
TopFive == 5
DefaultWeight == 1

WeightVals == {-1, 0, 1}
\* class counts: the smallest on which top-5 exists, and one too small for it
ClassCounts == {TopFive - 2, TopFive}

\* ---- tensor operations ----
\* x.reshape([-1, cols]) of the scalars of x in row-major order
Reshape(flat, cols) ==
    [r \in 1..(Len(flat) \div cols) |-> SubSeq(flat, (r - 1) * cols + 1, r * cols)]
Flatten2(m) == Concat(m)
Flatten3(t) == Concat([b \in DOMAIN t |-> Concat(t[b])])

RECURSIVE Copies(_, _)
Copies(row, n) == IF n = 0 THEN << >> ELSE row \o Copies(row, n - 1)

\* target.repeat([1, N]): every row followed by itself, N times in all
RepeatCols(target, N) == [b \in DOMAIN target |-> Copies(target[b], N)]
\* target.repeat(r, 1): the whole batch r times over
RepeatRows(target, r) == Copies(target, r)

\* t[:, :, j] (j counted from 0)
Slice(t, j) == [b \in DOMAIN t |-> [c \in DOMAIN t[b] |-> t[b][c][j + 1]]]
\* t[:, :, 2:]
SliceFrom2(t) == [b \in DOMAIN t |-> [c \in DOMAIN t[b] |-> SubSeq(t[b][c], 3, Len(t[b][c]))]]
\* t.transpose([0, 2, 1])
Transpose021(t) ==
    [b \in DOMAIN t |-> [n \in DOMAIN t[b][1] |-> [c \in DOMAIN t[b] |-> t[b][c][n]]]]
\* t.flip(0)
FlipNone(t) == t
Flip(t) == [b \in DOMAIN t |-> t[Len(t) + 1 - b]]

\* A tensor of reals kept exactly: the real entries are val / den.
Scaled(d, v) == [den |-> d, val |-> v]

\* ---- LVViTLoss.__init__ ----
\* assert dense_weight + cls_weight > 0
WeightsAcceptedNonNegative(dense_weight, cls_weight) == dense_weight + cls_weight >= 0
WeightsAccepted(dense_weight, cls_weight) == dense_weight + cls_weight > 0

LVViTLoss(dense_weight, cls_weight, ground_truth) ==
    [state |-> IF WeightsAccepted(dense_weight, cls_weight) THEN "built" ELSE "failed",
     dense_weight |-> dense_weight, cls_weight |-> cls_weight, ground_truth |-> ground_truth]

\* ---- LVViTLoss.forward, target decomposition ----
\* ground_truth.max(-1)[1] == target_cls.max(-1)[1]: Tensor.max(axis) is the
\* tensor of the row maxima, so [1] is the maximum of the sample at index 1
\* and the comparison is one boolean for the whole batch.
MaxValues(m) == [b \in DOMAIN m |-> MaxSeq(m[b])]
SameMaxAtIndex1(ground_truth, target_cls) ==
    MaxValues(ground_truth)[2] = MaxValues(target_cls)[2]

\* ratio = 0.9 - 0.4 * (...), in tenths
Ratio10(ground_truth, target_cls) ==
    IF SameMaxAtIndex1(ground_truth, target_cls) THEN 5 ELSE 9

\* target_cls = target_cls * ratio + ground_truth * (1 - ratio), in tenths
BlendGroundTruth(ground_truth, target_cls) ==
    LET r == Ratio10(ground_truth, target_cls)
    IN  Scaled(10, [b \in DOMAIN target_cls |-> [c \in DOMAIN target_cls[b] |->
                        target_cls[b][c] * r + ground_truth[b][c] * (10 - r)]])

\* target_aux of the two branches; target.repeat([1, N]) sets N copies of
\* each row side by side
TargetAux(target, rank, N, C) ==
    IF rank = 2 THEN Reshape(Flatten2(RepeatCols(target, N)), C)
    ELSE Reshape(Flatten3(Transpose021(SliceFrom2(target))), C)

\* lam = 1 - ((bbx2 - bbx1) * (bby2 - bby1) / N), as lam * N
LamTimesN(bb, N) == N - (bb[3] - bb[1]) * (bb[4] - bb[2])

\* if lam < 1: target_cls = lam * target_cls + (1 - lam) * target_cls.flip(0)
MixTarget(target_cls, lamN, N) ==
    IF lamN < N
      THEN Scaled(target_cls.den * N,
                  [b \in DOMAIN target_cls.val |-> [c \in DOMAIN target_cls.val[b] |->
                      lamN * target_cls.val[b][c] + (N - lamN) * Flip(target_cls.val)[b][c]]])
      ELSE target_cls

\* ---- _SoftTargetCrossEntropy.forward ----
\* -F.log_softmax(x)[c] = logsumexp(x) - x[c]; logsumexp(x) lies in
\* [max(x), max(x) + log C] and its integer part max(x) is kept.
NegLogSoftmax(row) == [c \in DOMAIN row |-> MaxSeq(row) - row[c]]

SoftTargetCrossEntropy(x, target) ==
    LET N_rep == Len(x)
        N == Len(target.val)
        t == IF N # N_rep THEN RepeatRows(target.val, N_rep \div N) ELSE target.val
        rows == [r \in 1..N_rep |->
                    SumSeq([c \in DOMAIN x[r] |-> t[r][c] * NegLogSoftmax(x[r])[c]])]
    IN  Frac(SumSeq(rows), N_rep * target.den)

\* self.cls_weight * loss_cls + self.dense_weight * loss_aux
TotalLoss(self, loss_cls, loss_aux) ==
    Frac(self.cls_weight * loss_cls.num * loss_aux.den
             + self.dense_weight * loss_aux.num * loss_cls.den,
         loss_cls.den * loss_aux.den)


\* ---- LVViTLoss.forward ----
LamBelowOne(lamN, N) == lamN < N

\* forward reads self.ground_truth, self.cls_weight, self.dense_weight and
\* self.CE and assigns no attribute.
SelfAfterForward(self) == self

Failed(stage, e) ==
    [err |-> e, reached |-> stage, target_cls0 |-> Scaled(1, << >>), target_aux |-> << >>,
     lamN |-> 0, mixed |-> FALSE, target_cls |-> Scaled(1, << >>), aux_flat |-> << >>,
     loss_cls |-> Frac(0, 1), loss_aux |-> Frac(0, 1), losses |-> << >>]

\* has_repeat: whether the Tensor class of the installed paddle has a method
\* `repeat` (its API names the operation `tile`); without it the attribute
\* lookup of line 133 raises AttributeError.
LossForward(self, output, aux_output, bb, target, rank, tie, has_repeat) ==
    LET B == Len(aux_output)
        N == Len(aux_output[1])
        C == Len(aux_output[1][1])
    IN  IF rank = 2 /\ ~has_repeat
          THEN Failed("target_aux", "AttributeError")
        ELSE IF rank = 3 /\ self.ground_truth /\ B < 2
          THEN Failed("ratio", "IndexError")
          ELSE
            LET target_cls0 ==
                    IF rank = 2 THEN Scaled(1, target)
                    ELSE IF self.ground_truth
                           THEN BlendGroundTruth(Slice(target, 0), Slice(target, 1))
                           ELSE Scaled(1, Slice(target, 1))
                target_aux == TargetAux(target, rank, N, C)
                lamN == LamTimesN(bb, N)
                target_cls == MixTarget(target_cls0, lamN, N)
                aux_flat == Reshape(Flatten3(aux_output), C)
                loss_cls == SoftTargetCrossEntropy(output, target_cls)
                loss_aux == SoftTargetCrossEntropy(aux_flat, Scaled(1, target_aux))
                total == TotalLoss(self, loss_cls, loss_aux)
                a == Accuracy(output, [dim |-> 2, idx |-> << >>, rows |-> target_cls.val],
                              <<1, TopFive>>, tie)
            IN  [err |-> a.err,
                 reached |-> IF a.err = "" THEN "return" ELSE "accuracy",
                 target_cls0 |-> target_cls0, target_aux |-> target_aux,
                 lamN |-> lamN, mixed |-> LamBelowOne(lamN, N),
                 target_cls |-> target_cls, aux_flat |-> aux_flat,
                 loss_cls |-> loss_cls, loss_aux |-> loss_aux,
                 losses |-> IF a.err = "" THEN [loss |-> total, acc1 |-> a.res[1], acc5 |-> a.res[2]]
                            ELSE << >>]

\* ---- the tensors handed to forward ----
\* Entry number pos of tensor `salt` in family member `seed`, in {0, 1, 2}.
Elem(seed, salt, pos) == ((pos * pos * seed + pos * salt + seed + salt) % 7) % 3

Tensor2(seed, salt, B, C) ==
    [b \in 1..B |-> [c \in 1..C |-> Elem(seed, salt, (b - 1) * C + c)]]
Tensor3(seed, salt, B, M, K) ==
    [b \in 1..B |-> [m \in 1..M |-> [k \in 1..K |->
        Elem(seed, salt, ((b - 1) * M + (m - 1)) * K + k)]]]

\* rank 2: [B, C]; rank 3: [B, C, 2 + N]
TargetOf(seed, rank, B, N, C) ==
    IF rank = 2 THEN Tensor2(seed, 1, B, C) ELSE Tensor3(seed, 1, B, C, 2 + N)

LossInit ==
    /\ loss = [state |-> "none", dense_weight |-> 0, cls_weight |-> 0, ground_truth |-> FALSE]
    /\ fwd = [pc |-> "idle"]

LossFrame == UNCHANGED <<pc, mode, inputs, kwargs, img, label, outs, pending, grad, orig,
                         gradBefore, trace, result, acc>>

\* LVViTLoss(dense_weight, cls_weight, ground_truth)
Construct(dense_weight, cls_weight, ground_truth) ==
    /\ LossFrame
    /\ loss.state = "none"
    /\ loss' = LVViTLoss(dense_weight, cls_weight, ground_truth)
    /\ UNCHANGED fwd

\* one call self.loss(outs, label) on a constructed object
ForwardCall(B, W, H, C, bb, seed, rank, tie, has_repeat) ==
    /\ LossFrame
    /\ loss.state = "built"
    /\ fwd.pc = "idle"
    /\ LET N == W * H
           output == Tensor2(seed, 2, B, C)
           aux_output == Tensor3(seed, 3, B, N, C)
           target == TargetOf(seed, rank, B, N, C)
           r == LossForward(loss, output, aux_output, bb, target, rank, tie, has_repeat)
       IN  fwd' = [pc |-> "done", self |-> loss, B |-> B, W |-> W, H |-> H, N |-> N, C |-> C,
                   bb |-> bb, rank |-> rank, tie |-> tie, has_repeat |-> has_repeat,
                   output |-> output,
                   aux_output |-> aux_output,
                   target2 |-> IF rank = 2 THEN target ELSE << >>,
                   target3 |-> IF rank = 3 THEN target ELSE << >>, out |-> r]
    /\ loss' = SelfAfterForward(loss)

\* the caller takes the result (or the error) of the call
ForwardDone ==
    /\ LossFrame
    /\ fwd.pc = "done"
    /\ fwd' = [pc |-> "idle"]
    /\ UNCHANGED loss

\* the object (or the failed construction) is dropped
Drop ==
    /\ LossFrame
    /\ loss.state \in {"built", "failed"}
    /\ fwd.pc = "idle"
    /\ loss' = [state |-> "none", dense_weight |-> 0, cls_weight |-> 0, ground_truth |-> FALSE]
    /\ UNCHANGED fwd

\* the bounding boxes of a W x H token grid, by their signed extents
Boxes(W, H) ==
    {<<Max2(0, 0 - dx), Max2(0, 0 - dy), Max2(0, 0 - dx) + dx, Max2(0, 0 - dy) + dy>> :
        dx \in (0 - W)..W, dy \in (0 - H)..H}

\* the builds of paddle a call of the given target rank tells apart: only
\* the rank-2 branch looks `repeat` up
RepeatBuilds(rank) == IF rank = 2 THEN BOOLEAN ELSE {TRUE}

\* some forward call, with batch sizes Bs, grid sides Sides and tensors Seeds
ForwardAny(Bs, Sides, Seeds) ==
    /\ loss.state = "built"
    /\ fwd.pc = "idle"
    /\ \E B \in Bs, W \in Sides, H \in Sides, C \in ClassCounts, seed \in Seeds,
          rank \in {2, 3}, tie \in {"low", "high"} :
         \E bb \in Boxes(W, H), has_repeat \in RepeatBuilds(rank) :
            ForwardCall(B, W, H, C, bb, seed, rank, tie, has_repeat)

\* The loss as LVViTWrapper builds it (LVViTLoss(), both weights 1.0), with
\* the ground_truth option either way, under every forward call.
LossNext ==
    \/ \E gt \in BOOLEAN : Construct(DefaultWeight, DefaultWeight, gt)
    \/ ForwardAny(1..MaxB, 1..MaxSide, 1..MaxSeed)
    \/ ForwardDone
    \/ Drop

InitLoss == LossInit /\ WrapIdle /\ AccIdle

SpecLoss == InitLoss /\ [][LossNext]_vars

\* Every construction, each object under a few forward calls.
CtorNext ==
    \/ \E dw \in WeightVals, cw \in WeightVals, gt \in BOOLEAN : Construct(dw, cw, gt)
    \/ ForwardAny(1..MaxB, {1}, {1})
    \/ ForwardDone
    \/ Drop

SpecCtor == InitLoss /\ [][CtorNext]_vars


(***************************************************************************)
(* Claims about LVViTLoss (C5 under SpecCtor, the others under SpecLoss)   *)
(***************************************************************************)
Called == fwd.pc = "done"
TargetsBuilt == Called /\ fwd.out.reached \notin {"target_aux", "ratio"}

\* C5: construction with dense_weight + cls_weight <= 0 (so with 0 and 0)
\* fails and leaves no object; every constructed object has
\* dense_weight + cls_weight > 0; forward is only ever called on a
\* constructed object and leaves the two weights and the ground_truth flag
\* as they were.
C5_WeightsInvariant ==
    /\ loss.state \in {"built", "failed"} =>
          (loss.state = "failed" <=> loss.dense_weight + loss.cls_weight <= 0)
    /\ loss.state = "built" => loss.dense_weight + loss.cls_weight > 0
    /\ Called => /\ loss.state = "built"
                 /\ loss.dense_weight = fwd.self.dense_weight
                 /\ loss.cls_weight = fwd.self.cls_weight
                 /\ loss.ground_truth = fwd.self.ground_truth

C5_Witness == loss.state = "failed" /\ loss.dense_weight = 0 /\ loss.cls_weight = 0

C5_WitnessForward == Called /\ loss.dense_weight = 1 /\ loss.cls_weight = 0 /\ fwd.out.err = ""

FracEq(p, q) == p.num * q.den = q.num * p.den

\* C7 (as stated): on well-shaped inputs forward completes without error and
\* returns a mapping with exactly the keys loss, acc1, acc5, where loss is
\* cls_weight * loss_cls + dense_weight * loss_aux.
C7_Claim ==
    (Called /\ ~fwd.self.ground_truth) =>
        /\ fwd.out.err = ""
        /\ DOMAIN fwd.out.losses = {"loss", "acc1", "acc5"}
        /\ FracEq(fwd.out.losses["loss"],
                  Frac(fwd.self.cls_weight * fwd.out.loss_cls.num * fwd.out.loss_aux.den
                          + fwd.self.dense_weight * fwd.out.loss_aux.num * fwd.out.loss_cls.den,
                       fwd.out.loss_cls.den * fwd.out.loss_aux.den))

\* C7 on the literal example: B = 2, N = 4, C = 3, weights (1.0, 1.0).
C7_LiteralExample ==
    (/\ Called /\ fwd.B = 2 /\ fwd.N = 4 /\ fwd.C = 3 /\ fwd.rank = 2
     /\ fwd.self.cls_weight = 1 /\ fwd.self.dense_weight = 1 /\ ~fwd.self.ground_truth)
        => fwd.out.err = ""

\* What remains of C7 with five classes or more and, for a rank-2 target, a
\* Tensor that has `repeat`: it holds.
C7_WithFiveClasses == (Called /\ fwd.C >= TopFive /\ fwd.out.err # "AttributeError") => C7_Claim

\* C8 (as stated): target_aux has B*N rows and is row-aligned with the
\* flattened auxiliary logits: row b*N+n of the logits is aux_logits[b][n]
\* and row b*N+n of target_aux is target[b] for a rank-2 target and the
\* label of sample b at token n (slices 2 onward) for a rank-3 target.
C8_Claim ==
    (Called /\ fwd.out.reached # "ratio") =>
        /\ Len(fwd.out.target_aux) = fwd.B * fwd.N
        /\ Len(fwd.out.aux_flat) = fwd.B * fwd.N
        /\ \A b \in 1..fwd.B, n \in 1..fwd.N :
              LET row == (b - 1) * fwd.N + n
              IN  /\ fwd.out.aux_flat[row] = fwd.aux_output[b][n]
                  /\ fwd.out.target_aux[row] =
                        IF fwd.rank = 2 THEN fwd.target2[b]
                        ELSE [c \in 1..fwd.C |-> fwd.target3[b][c][2 + n]]

\* What remains of C8 where target_aux is computed (rank-3 targets, and
\* rank-2 targets on a Tensor that has `repeat`): it holds.
C8_WhereRepeatExists == (Called /\ fwd.out.err # "AttributeError") => C8_Claim

\* C9: with lam = 1 - (x2-x1)*(y2-y1)/N: when lam = 1 the target used for
\* the loss is the unmixed target_cls (the blend is not applied); when
\* lam < 1 it is lam * target_cls[b] + (1 - lam) * target_cls[B-1-b] for
\* every sample b; for a box inside the grid with x1 <= x2 and y1 <= y2,
\* lam lies in [0, 1].
BoxArea == (fwd.bb[3] - fwd.bb[1]) * (fwd.bb[4] - fwd.bb[2])
BoxInGrid ==
    /\ 0 <= fwd.bb[1] /\ fwd.bb[1] <= fwd.bb[3] /\ fwd.bb[3] <= fwd.W
    /\ 0 <= fwd.bb[2] /\ fwd.bb[2] <= fwd.bb[4] /\ fwd.bb[4] <= fwd.H

ExpectedMix ==
    LET pre == fwd.out.target_cls0
        lamN == fwd.N - BoxArea
    IN  IF lamN >= fwd.N THEN pre
        ELSE Scaled(pre.den * fwd.N,
                    [b \in 1..fwd.B |-> [c \in 1..fwd.C |->
                        lamN * pre.val[b][c] + BoxArea * pre.val[fwd.B + 1 - b][c]]])

C9_LamMixing ==
    TargetsBuilt =>
        /\ BoxArea = 0 => (~fwd.out.mixed /\ fwd.out.target_cls = fwd.out.target_cls0)
        /\ (BoxArea > 0) => (fwd.out.mixed /\ fwd.out.target_cls = ExpectedMix)
        /\ FracEq(fwd.out.loss_cls, SoftTargetCrossEntropy(fwd.output, ExpectedMix))
        /\ BoxInGrid => (0 <= fwd.N - BoxArea /\ fwd.N - BoxArea <= fwd.N)

C9_Witness ==
    /\ TargetsBuilt /\ fwd.out.reached = "return" /\ fwd.B = 2
    /\ BoxInGrid /\ 0 < BoxArea /\ BoxArea < fwd.N
    /\ fwd.out.target_cls0.val[1] # fwd.out.target_cls0.val[2]
    /\ fwd.out.loss_cls.num # 0

\* C10 (as stated): with a rank-3 target and ground_truth enabled, every
\* sample's ratio is 0.5 if argmax(ground truth) = argmax(classification
\* target) and 0.9 otherwise, and target_cls = ratio * target_cls +
\* (1 - ratio) * ground_truth for that sample; with ground_truth disabled,
\* target_cls is the slice at index 1 unchanged.
SampleRatio10(b) ==
    IF ArgMax(Slice(fwd.target3, 0)[b]) = ArgMax(Slice(fwd.target3, 1)[b]) THEN 5 ELSE 9

C10_Claim ==
    (TargetsBuilt /\ fwd.rank = 3) =>
        \A b \in 1..fwd.B : \A c \in 1..fwd.C :
            IF fwd.self.ground_truth
              THEN /\ fwd.out.target_cls0.den = 10
                   /\ fwd.out.target_cls0.val[b][c] =
                          SampleRatio10(b) * fwd.target3[b][c][2]
                              + (10 - SampleRatio10(b)) * fwd.target3[b][c][1]
              ELSE /\ fwd.out.target_cls0.den = 1
                   /\ fwd.out.target_cls0.val[b][c] = fwd.target3[b][c][2]

\* The half of C10 with ground_truth disabled: it holds.
C10_GroundTruthDisabled == (Called /\ ~fwd.self.ground_truth) => C10_Claim

====
